---- MODULE Spec2Model ----
(***************************************************************************)
(* kbase::Lazy<T> (src/kbase/lazy.h): a holder that creates its single T   *)
(* on first access through std::call_once.                                 *)
(*                                                                         *)
(* Threads call value() and value_created() on one holder.  value() is     *)
(* modelled at the granularity of its shared-memory effects:               *)
(*   call_once entry -> factory running -> value_.reset(p) ->              *)
(*   call_once exit (flag set) -> *value_.get() -> returned                *)
(* with the exceptional exit of call_once when the factory throws.         *)
(***************************************************************************)
EXTENDS Integers, Naturals, Sequences, FiniteSets, TLC

\* ---------------------------------------------------------------- bounds
NThreads == 3          \* threads sharing the holder
MaxCalls == 3          \* value() calls started in one run, over all threads
MaxFails == 1          \* factory invocations that may throw in one run
MaxVal   == 1          \* custom Creators build T(v), v in 0..MaxVal

Threads == 1..NThreads

\* ------------------------------------------------------------ data model
\* The empty std::unique_ptr<T> (value_.get() == nullptr).
NULL == 0

\* The value of a default-constructed T, `new T()`.
TDefault == 0

TValues == 0..MaxVal

\* Lazy(): ctor_ is the lambda returning new T().
DefaultCreator == [kind |-> "default", result |-> TDefault]

\* Lazy(Creator): a valid Creator returns a raw pointer to a T object.
ValidCreators == {[kind |-> "custom", result |-> v] : v \in TValues}

\* A Creator the type std::function<T*()> admits but the comment rules out:
\* it returns nullptr.
NullCreator == [kind |-> "null", result |-> TDefault]

VARIABLES
    ctor_,      \* the stored Creator
    value_,     \* std::unique_ptr<T>: NULL or the address of the owned T
    flag_,      \* std::once_flag: "idle", "active" (a call is running), "done"
    heap,       \* the T objects created so far; an address is an index
    newp,       \* the pointer ctor_() returned to the running Initialize()
    calls,      \* number of times ctor_ has been invoked
    fails,      \* number of those invocations that threw
    pc,         \* per thread: its position in value()
    started,    \* number of value() calls started so far
    ret,        \* per thread: the address its last value() returned
    after,      \* per thread: its current call began after some call returned
    waited,     \* some value() call began while another call was constructing
    firstRet,   \* <<a>> once a value() call has returned, a the first address returned
    vcSeen      \* the results value_created() has returned so far

vars == <<ctor_, value_, flag_, heap, newp, calls, fails, pc, started, ret,
          after, waited, firstRet, vcSeen>>

Outside == {"idle", "returned", "threw"}

\* ------------------------------------------------------------- operations
\* Mutant: the test of the unique_ptr inverted.
value_created_inverted == value_ = NULL

\* bool value_created() const { return static_cast<bool>(value_); }
value_created == value_ # NULL

\* Lazy() and Lazy(Creator): members after construction.
LazyInit(creators) ==
    /\ ctor_ \in creators
    /\ value_ = NULL
    /\ flag_ = "idle"

\* A thread enters value() and reaches std::call_once.
CallValue(t) ==
    /\ pc[t] \in Outside
    /\ started < MaxCalls
    /\ pc' = [pc EXCEPT ![t] = "call_once"]
    /\ started' = started + 1
    /\ ret' = [ret EXCEPT ![t] = NULL]
    /\ after' = [after EXCEPT ![t] = (firstRet # <<>>)]
    /\ waited' = (waited \/ flag_ = "active")
    /\ UNCHANGED <<ctor_, value_, flag_, heap, newp, calls, fails, firstRet, vcSeen>>

\* Mutant: a check-then-act guard with no mutual exclusion; a caller that sees
\* the flag unset runs Initialize() even while another call is running it.
CallOnceActiveRacy(t) ==
    /\ pc[t] = "call_once"
    /\ flag_ # "done"
    /\ flag_' = "active"
    /\ calls' = calls + 1
    /\ pc' = [pc EXCEPT ![t] = "in_ctor"]
    /\ UNCHANGED <<ctor_, value_, heap, newp, fails, started, ret, after, waited, firstRet, vcSeen>>

\* Mutant: a plain mutex instead of a once-guard; calls exclude each other but
\* every call that gets in runs Initialize(), the flag being ignored.
CallOnceActiveNoOnce(t) ==
    /\ pc[t] = "call_once"
    /\ flag_ # "active"
    /\ flag_' = "active"
    /\ calls' = calls + 1
    /\ pc' = [pc EXCEPT ![t] = "in_ctor"]
    /\ UNCHANGED <<ctor_, value_, heap, newp, fails, started, ret, after, waited, firstRet, vcSeen>>

\* std::call_once, flag not set and no call running: this call becomes the
\* active one and invokes Initialize(), which invokes ctor_().
CallOnceActive(t) ==
    /\ pc[t] = "call_once"
    /\ flag_ = "idle"
    /\ flag_' = "active"
    /\ calls' = calls + 1
    /\ pc' = [pc EXCEPT ![t] = "in_ctor"]
    /\ UNCHANGED <<ctor_, value_, heap, newp, fails, started, ret, after, waited, firstRet, vcSeen>>

\* Mutant: a caller that finds another call running does not wait for it.
CallOncePassiveNoWait(t) ==
    /\ pc[t] = "call_once"
    /\ flag_ \in {"done", "active"}
    /\ pc' = [pc EXCEPT ![t] = "deref"]
    /\ UNCHANGED <<ctor_, value_, flag_, heap, newp, calls, fails, started, ret, after, waited, firstRet, vcSeen>>

\* std::call_once, flag already set: returns without calling (a passive call).
\* While another call is active the caller blocks: no step is enabled.
CallOncePassive(t) ==
    /\ pc[t] = "call_once"
    /\ flag_ = "done"
    /\ pc' = [pc EXCEPT ![t] = "deref"]
    /\ UNCHANGED <<ctor_, value_, flag_, heap, newp, calls, fails, started, ret, after, waited, firstRet, vcSeen>>

\* What ctor_() hands back: the address of a fresh T, or nullptr.
CtorResult(c, h) ==
    IF c.kind = "null" THEN NULL ELSE Len(h) + 1

\* Mutant: the stored Creator is ignored and a default T is built.
CtorHeapDefault(c, h) ==
    IF c.kind = "null" THEN h ELSE Append(h, TDefault)

\* The heap after ctor_() ran to completion.
CtorHeap(c, h) ==
    IF c.kind = "null" THEN h ELSE Append(h, c.result)

\* ctor_() returns inside Initialize().
CtorReturn(t) ==
    /\ pc[t] = "in_ctor"
    /\ newp' = CtorResult(ctor_, heap)
    /\ heap' = CtorHeap(ctor_, heap)
    /\ pc' = [pc EXCEPT ![t] = "reset"]
    /\ UNCHANGED <<ctor_, value_, flag_, calls, fails, started, ret, after, waited, firstRet, vcSeen>>

\* Mutant: an exceptional call marks the flag as set.
FlagSetAfterThrow == "done"

\* Mutant: an exceptional call never releases the guard.
FlagHeldAfterThrow == "active"

\* The state of the once_flag after an exceptional call: not set, so that
\* another call may become active.
FlagAfterThrow == "idle"

\* ctor_() throws: Initialize() and call_once propagate the exception to the
\* caller of value(); the flag is left unset.
CtorThrow(t) ==
    /\ pc[t] = "in_ctor"
    /\ fails < MaxFails
    /\ fails' = fails + 1
    /\ flag_' = FlagAfterThrow
    /\ pc' = [pc EXCEPT ![t] = "threw"]
    /\ UNCHANGED <<ctor_, value_, heap, newp, calls, started, ret, after, waited, firstRet, vcSeen>>

\* Mutant: Initialize() calls ctor_() but drops the pointer: value_.reset().
ResetTargetDropped(p) == NULL

\* The pointer Initialize() stores: value_.reset(ctor_()).
ResetTarget(p) == p

\* Mutant: Initialize() releases the stored Creator once it has used it
\* (ctor_ = nullptr after the reset).
ResetReleasingCreator(t) ==
    /\ pc[t] = "reset"
    /\ value_' = ResetTarget(newp)
    /\ newp' = NULL
    /\ ctor_' = [kind |-> "null", result |-> TDefault]
    /\ pc' = [pc EXCEPT ![t] = "once_exit"]
    /\ UNCHANGED <<flag_, heap, calls, fails, started, ret, after, waited, firstRet, vcSeen>>

\* value_.reset(p) in Initialize().
Reset(t) ==
    /\ pc[t] = "reset"
    /\ value_' = ResetTarget(newp)
    /\ newp' = NULL
    /\ pc' = [pc EXCEPT ![t] = "once_exit"]
    /\ UNCHANGED <<ctor_, flag_, heap, calls, fails, started, ret, after, waited, firstRet, vcSeen>>

\* Mutant: the guard is released after a successful call, but not set.
CallOnceExitUnset(t) ==
    /\ pc[t] = "once_exit"
    /\ flag_' = "idle"
    /\ pc' = [pc EXCEPT ![t] = "deref"]
    /\ UNCHANGED <<ctor_, value_, heap, newp, calls, fails, started, ret, after, waited, firstRet, vcSeen>>

\* Initialize() returned normally: call_once sets the flag and returns.
CallOnceExit(t) ==
    /\ pc[t] = "once_exit"
    /\ flag_' = "done"
    /\ pc' = [pc EXCEPT ![t] = "deref"]
    /\ UNCHANGED <<ctor_, value_, heap, newp, calls, fails, started, ret, after, waited, firstRet, vcSeen>>

\* return *value_.get();  Dereferencing an empty unique_ptr is undefined:
\* the call hands back a null reference or the process faults.
Deref(t) ==
    /\ pc[t] = "deref"
    /\ \/ /\ pc' = [pc EXCEPT ![t] = "returned"]
          /\ ret' = [ret EXCEPT ![t] = value_]
          /\ firstRet' = IF firstRet = <<>> THEN <<value_>> ELSE firstRet
       \/ /\ value_ = NULL
          /\ pc' = [pc EXCEPT ![t] = "crashed"]
          /\ UNCHANGED <<ret, firstRet>>
    /\ UNCHANGED <<ctor_, value_, flag_, heap, newp, calls, fails, started, after, waited, vcSeen>>

\* Mutant: the test is written with release(), which gives up the pointer:
\* return value_.release() != nullptr.
ValueCreatedReleasing(t) ==
    /\ pc[t] \in Outside
    /\ vcSeen' = vcSeen \cup {value_created}
    /\ value_' = NULL
    /\ UNCHANGED <<ctor_, flag_, heap, newp, calls, fails, pc, started, ret, after, waited, firstRet>>

\* Mutant: value_created() takes the guard and waits while a call is active.
ValueCreatedLocking(t) ==
    /\ pc[t] \in Outside
    /\ flag_ # "active"
    /\ vcSeen' = vcSeen \cup {value_created}
    /\ UNCHANGED <<ctor_, value_, flag_, heap, newp, calls, fails, pc, started, ret, after, waited, firstRet>>

\* A thread that is not inside value() calls value_created().  The read is
\* not synchronized with value_.reset(p) on another thread; it sees the
\* pointer from before or from after the store, which the interleaving of
\* this step with Reset covers.
ValueCreated(t) ==
    /\ pc[t] \in Outside
    /\ vcSeen' = vcSeen \cup {value_created}
    /\ UNCHANGED <<ctor_, value_, flag_, heap, newp, calls, fails, pc, started, ret, after, waited, firstRet>>

\* ---------------------------------------------------------- specification
ThreadsInit ==
    /\ heap = <<>>
    /\ newp = NULL
    /\ calls = 0
    /\ fails = 0
    /\ pc = [t \in Threads |-> "idle"]
    /\ started = 0
    /\ ret = [t \in Threads |-> NULL]
    /\ after = [t \in Threads |-> FALSE]
    /\ waited = FALSE
    /\ firstRet = <<>>
    /\ vcSeen = {}

\* Holders built by Lazy() or by Lazy(Creator) with a valid Creator.
Init == LazyInit({DefaultCreator} \cup ValidCreators) /\ ThreadsInit

\* Holders built with any Creator, the nullptr-returning one included.
InitAnyCreator ==
    LazyInit({DefaultCreator, NullCreator} \cup ValidCreators) /\ ThreadsInit

\* The steps of a value() call once it has been started.
Advance(t) ==
    \/ CallOnceActive(t)
    \/ CallOncePassive(t)
    \/ CtorReturn(t)
    \/ CtorThrow(t)
    \/ Reset(t)
    \/ CallOnceExit(t)
    \/ Deref(t)

Next ==
    \E t \in Threads :
        \/ CallValue(t)
        \/ CallOnceActive(t)
        \/ CallOncePassive(t)
        \/ CtorReturn(t)
        \/ CtorThrow(t)
        \/ Reset(t)
        \/ CallOnceExit(t)
        \/ Deref(t)
        \/ ValueCreated(t)

Spec == Init /\ [][Next]_vars

SpecAnyCreator == InitAnyCreator /\ [][Next]_vars

\* Every thread inside value() keeps being scheduled, and a running factory
\* terminates (by returning or by throwing).
FairSpec == Spec /\ \A t \in Threads : WF_vars(Advance(t))

\* ------------------------------------------------------------ properties
Inside == {"call_once", "in_ctor", "reset", "once_exit", "deref"}

\* A thread is running Initialize(): the factory, or the store of its result.
Constructing(t) == pc[t] \in {"in_ctor", "reset", "once_exit"}

\* C1: single construction.  When every one of the N threads has made one
\* value() call on the fresh holder and all N calls have returned, the
\* factory has been invoked exactly once and all N calls returned the same,
\* existing instance.
SingleConstruction ==
    (started = NThreads /\ \A t \in Threads : pc[t] = "returned")
        => /\ calls = 1
           /\ \A t, u \in Threads : ret[t] = ret[u]
           /\ \A t \in Threads : ret[t] = value_ /\ ret[t] \in 1..Len(heap)

\* Witness of C1: N concurrent first calls, none started after a return,
\* have all returned.
SingleConstructionReached ==
    /\ started = NThreads
    /\ \A t \in Threads : pc[t] = "returned" /\ ~after[t]

\* C2: in every reachable state the factory has been invoked at most once,
\* whatever the factory does, throwing included.
FactoryAtMostOnce == calls <= 1

\* C3: the instance slot is monotone: once value_ is present no step resets
\* or replaces it, so it goes from absent to present at most once.
InstanceMonotone == [][value_ # NULL => value_' = value_]_vars

\* Witness of C3: the slot is present and value() calls started afterwards
\* have run to completion.
InstanceKeptReached ==
    /\ value_ # NULL
    /\ started = MaxCalls
    /\ \E t \in Threads : after[t] /\ pc[t] = "returned"

\* C4: no partial-construction visibility.  A value() call returns only when
\* the instance is present, the guard has fired and no factory is running,
\* and it returns that instance; a caller that reaches the guard while another
\* thread is constructing takes no step (it neither runs the factory nor
\* returns) until that construction is over.
NoPartialConstruction ==
    [][\A t \in Threads :
          /\ (pc[t] # "returned" /\ pc'[t] = "returned")
                => /\ value_ # NULL
                   /\ flag_ = "done"
                   /\ \A u \in Threads : ~Constructing(u)
                   /\ ret'[t] = value_
          /\ (pc[t] = "call_once" /\ flag_ = "active")
                => /\ pc'[t] = "call_once"
                   /\ calls' = calls
      ]_vars

\* Witness of C4: a call began while the factory was running on another
\* thread, no factory invocation failed, and every call made has returned the
\* instance that thread built.
WaiterReturnedReached ==
    /\ waited
    /\ fails = 0
    /\ \A t \in Threads : pc[t] \in {"idle", "returned"}
    /\ \A t \in Threads : pc[t] = "returned" => ret[t] = value_

\* C5 as stated: whenever value() has returned, the instance slot is present
\* and the reference returned designates it, for every Creator whatever
\* pointer it returns.
ReturnedValueExists ==
    \A t \in Threads :
        pc[t] = "returned" => (value_created /\ ret[t] = value_)

\* C5 amended: the same, for a holder built by Lazy() or with a Creator that
\* returns a pointer to a T object.
ReturnedValueExistsValid ==
    ctor_.kind # "null" => ReturnedValueExists

\* Witness of C5: value() has returned on a holder built with a custom Creator.
ReturnedCustomReached ==
    \E t \in Threads : pc[t] = "returned" /\ ctor_.kind = "custom"

\* C6: once some value() call has returned, a call started afterwards never
\* runs Initialize() (so it does not invoke the factory), and when it has
\* returned it has returned the instance the first call returned.
LaterCallsSameInstance ==
    \A t \in Threads :
        after[t] => /\ ~Constructing(t)
                    /\ pc[t] = "returned" => <<ret[t]>> = firstRet

\* Witness of C6: a call started after another call's return has returned,
\* on a holder whose first construction attempt failed.
LaterCallReturnedReached ==
    \E t \in Threads : after[t] /\ pc[t] = "returned" /\ calls - fails = 1

\* C7: value_created() is false in every state before any value() call has
\* been started, and true in every state after a value() call has returned.
ValueCreatedTracksAccess ==
    /\ started = 0 => (~value_created /\ TRUE \notin vcSeen)
    /\ firstRet # <<>> => value_created

\* Witness of C7: value_created() was called before the first access and
\* after a completed one, and gave both answers.
ValueCreatedBothReached ==
    /\ firstRet # <<>>
    /\ vcSeen = {TRUE, FALSE}

\* C8: a factory failure on thread t ends t's value() call with the failure
\* and no other thread's; the failed attempt leaves the holder as it was
\* before the attempt: instance absent, value_created() false, guard not
\* fired (and free for another caller), factory unchanged.
FailureLeavesHolderUnchanged ==
    [][\A t \in Threads :
          /\ (pc[t] # "threw" /\ pc'[t] = "threw")
                => /\ pc[t] = "in_ctor"
                   /\ fails' = fails + 1
                   /\ \A u \in Threads \ {t} : pc'[u] = pc[u]
                   /\ value_ = NULL /\ value_' = NULL
                   /\ ~value_created'
                   /\ flag_' = "idle"
                   /\ ctor_' = ctor_
      ]_vars

\* Witness of C8: the factory threw on one thread while another caller was
\* waiting at the guard; the waiter's call is still pending.
FailureDeliveredReached ==
    \E t, u \in Threads :
        /\ pc[t] = "threw"
        /\ pc[u] = "call_once" /\ waited
        /\ flag_ = "idle" /\ fails = 1 /\ calls = 1

\* C9: under fair scheduling every value() call that has been started
\* returns, normally or with the factory's failure.
AccessTerminates ==
    \A t \in Threads : (pc[t] \in Inside) ~> (pc[t] \in {"returned", "threw"})

\* Witness of C9: every call of the run is over, among them a failed one and
\* one that began while another call was constructing.
AllCallsOverReached ==
    /\ started = MaxCalls
    /\ fails > 0
    /\ waited
    /\ \A t \in Threads : pc[t] \in {"returned", "threw"}

\* The T a holder's factory builds: T() for Lazy(), F's object for Lazy(F).
Expected == IF ctor_.kind = "default" THEN TDefault ELSE ctor_.result

\* C10: the instance value() returns is the one object the stored factory
\* has produced, and its value is the factory's: T's default value for a
\* default-constructed holder, F's result for a holder built with Creator F;
\* further value() calls do not change this.
ReturnedIsFactoryResult ==
    \A t \in Threads :
        pc[t] = "returned"
            => /\ Len(heap) = 1
               /\ ret[t] = Len(heap)
               /\ heap[ret[t]] = Expected

\* Witness of C10: all calls of the run have been made and a call returned
\* the object of a Creator that builds a non-default T.
CustomResultReached ==
    /\ started = MaxCalls
    /\ ctor_.kind = "custom" /\ ctor_.result # TDefault
    /\ \A t \in Threads : pc[t] = "returned"

\* The holder's members.
holder == <<value_, ctor_, flag_>>

\* C11: value_created() is a pure read.  A value_created() call that reports
\* a result leaves the instance slot, the stored factory and the guard as they
\* were, invokes no factory and moves no thread; and it never blocks: a thread
\* outside value() can always make the call, whatever the guard's state.
\* (A value_created() step that reports an already seen result changes nothing
\* at all.)
ValueCreatedPureRead ==
    /\ [][vcSeen' # vcSeen
            => /\ holder' = holder
               /\ calls' = calls /\ fails' = fails /\ heap' = heap
               /\ pc' = pc
               /\ vcSeen' = vcSeen \cup {value_created}]_vars
    /\ [](\A t \in Threads : pc[t] \in Outside => ENABLED ValueCreated(t))

\* Witness of C11: value_created() reported true while the constructing
\* thread was still inside std::call_once.
ValueCreatedDuringCallReached ==
    /\ TRUE \in vcSeen
    /\ flag_ = "active"
    /\ \E t \in Threads : pc[t] = "once_exit"

\* The holder is in its Initialized state: the guard has fired.
Initialized == flag_ = "done"

\* C12: the absent-to-present transition of the winning value() call is the
\* only mutation of the holder's data: no step changes the stored factory, the
\* instance slot changes only in the step of the thread running Initialize()
\* that stores the factory's result into the absent slot, and once the holder
\* is Initialized no step changes instance, factory or guard.
OnlyMutationIsConstruction ==
    [][/\ ctor_' = ctor_
       /\ value_' # value_
            => /\ value_ = NULL
               /\ \E t \in Threads : pc[t] = "reset" /\ pc'[t] = "once_exit"
       /\ Initialized => holder' = holder
      ]_vars

\* Witness of C12: on an Initialized holder a later value() call has passed
\* the guard and another has already returned.
InitializedCallsReached ==
    /\ Initialized
    /\ \E t, u \in Threads :
          /\ t # u
          /\ pc[t] = "deref" /\ after[t]
          /\ pc[u] = "returned"

\* A factory invocation has thrown and no construction has succeeded or is
\* under way.
FailedAndFree ==
    /\ fails > 0
    /\ value_ = NULL
    /\ \A t \in Threads : ~Constructing(t)

Constructors == {t \in Threads : Constructing(t)}

\* C14: mutual exclusion of construction.  In every reachable state at most
\* one thread is executing Initialize(), the guard is held ("active") exactly
\* while one is, and the number of factory invocations begun equals those that
\* threw, plus the one that succeeded or is running, if any.
ConstructionExclusive ==
    /\ Cardinality(Constructors) <= 1
    /\ flag_ = "active" <=> Constructors # {}
    /\ calls = fails + Len(heap) + Cardinality({t \in Threads : pc[t] = "in_ctor"})

\* Witness of C14: after a failed attempt one thread is running the factory
\* again while another caller waits at the guard.
RetryExclusiveReached ==
    \E t, u \in Threads :
        /\ t # u
        /\ pc[t] = "in_ctor" /\ pc[u] = "call_once"
        /\ fails > 0

\* C15: guard/instance coupling.  If the guard has fired the instance slot is
\* present; if value_created() reports true then a factory invocation has
\* completed successfully, none is in progress, and the slot holds the object
\* it built.
GuardInstanceCoupling ==
    /\ flag_ = "done" => value_created
    /\ value_created
          => /\ Len(heap) = 1
             /\ calls = fails + 1
             /\ value_ = Len(heap)
             /\ \A t \in Threads : pc[t] # "in_ctor"

\* Witness of C15: value_created() reports true although the guard has not
\* fired and no value() call has returned yet.
CreatedBeforeReturnReached ==
    /\ value_created
    /\ flag_ # "done"
    /\ firstRet = <<>>
    /\ \A t \in Threads : pc[t] # "returned"

====
